---- MODULE Spec2Model ----
(***************************************************************************)
(* Trafeek admin dashboard: the report list derivation of the Reports page *)
(* (search filter, location filter, engagement sort), the session holder   *)
(* (AuthProvider: initAuth, login, logout), and the list screens (Reports, *)
(* RiderReports, Users, RiderPerformance) with their queries, prompts,     *)
(* mutations and the report detail modal.                                  *)
(*                                                                         *)
(* JavaScript strings are sequences of one-character strings, so that      *)
(* toLowerCase, trim and includes are computed and not assumed.  A field   *)
(* that is missing from the backend's JSON (undefined) is the value        *)
(* Absent.  The query cache of the data-fetching library is one slot per   *)
(* query key; a handler that calls prompt() is two steps, the prompt's     *)
(* return and the rest of the handler, and nothing else runs in between.   *)
(***************************************************************************)
EXTENDS Integers, Sequences, FiniteSets, TLC

VARIABLES
    reportsData,        \* useQuery data: Absent until the fetch resolves, then the report list
    search,             \* useState("") of the search input
    locationSearch,     \* useState("") of the location input
    engagementFilter,   \* useState("all") of the engagement selector
    filteredReports,    \* the list the last render derived and displays
    token,              \* localStorage "admin_token"
    admin,              \* useState<Admin | null>(null)
    loading,            \* useState(true)
    initPc,             \* position of initAuth: "start", "awaiting", "done"
    meRequests,         \* number of GET /auth/me requests issued
    loginsInFlight,     \* number of POST /auth/login requests awaiting their response
    lastLogin,          \* the last answered login(): the backend's response and how the promise settled
    route,              \* the page the router shows
    typeFilter,         \* Reports: useState("all") of the type selector
    riderEmail,         \* searchParams.get("email"): riderEmail of RiderReports, emailFromUrl of Reports
    userSearch,         \* Users: useState("") of the search input
    roleFilter,         \* Users: useState("all") of the role selector
    startDate,          \* RiderPerformance: useState("") of the start date
    endDate,            \* RiderPerformance: useState("") of the end date
    emailFilter,        \* RiderPerformance: useState("") of the email input
    cache,              \* QueryClient cache: per query key, Absent or the data last fetched
    fetching,           \* GET requests of queries awaiting their response
    serverReports,      \* the reports the backend holds
    serverUsers,        \* the users the backend holds
    selectedReport,     \* useState<Report | null>(null) of the list that opens the detail modal
    newComment,         \* ReportDetailModal: useState("") of the comment draft
    prompting,          \* a handler between its prompt()/confirm() and the statement after it
    mutating,           \* mutations awaiting their response
    issued,             \* number of mutation and export requests issued
    toast               \* the last notification shown: "none", "success" or "error"

reportVars == <<reportsData, search, locationSearch, engagementFilter, filteredReports>>
authVars == <<token, admin, loading, initPc, meRequests, loginsInFlight, lastLogin>>
screenVars == <<route, typeFilter, riderEmail, userSearch, roleFilter,
                startDate, endDate, emailFilter>>
queryVars == <<cache, fetching>>
serverVars == <<serverReports, serverUsers>>
modalVars == <<selectedReport, newComment>>
callVars == <<prompting, mutating, issued, toast>>
appVars == <<screenVars, queryVars, serverVars, modalVars, callVars>>

vars == <<reportVars, authVars, appVars>>

\* An optional JavaScript value is a sequence of at most one element: Absent is
\* undefined (the field is missing), Some(v) is the value v.
Absent == <<>>
Some(v) == <<v>>
Val(o) == o[1]

\* A JavaScript number that may be NaN: NaN, or Num(n) for the integer n.
NaN == <<>>
Num(n) == <<n>>

\* null, of a useState<Admin | null>
Null == <<>>

----------------------------------------------------------------------------
(* Bounds of the explored inputs.                                          *)

FilterLen == 2      \* longest fetched list whose text fields vary
SortLen == 3        \* longest fetched list whose scores vary
MaxInFlight == 2    \* most login requests awaiting a response at once
MaxFetching == 2    \* most GET requests of queries awaiting a response at once
MaxCalls == 1       \* most mutation and export requests issued in one behaviour

----------------------------------------------------------------------------
(* Strings.                                                                *)

RECURSIVE SeqsUpTo(_, _)
SeqsUpTo(S, n) ==
    IF n = 0 THEN {<<>>}
    ELSE LET shorter == SeqsUpTo(S, n - 1)
         IN  shorter \cup {Append(s, x) : s \in {t \in shorter : Len(t) = n - 1}, x \in S}

LowerChar(c) ==
    CASE c = "F" -> "f"
      [] c = "L" -> "l"
      [] OTHER -> c

ToLowerCase(s) == [i \in 1..Len(s) |-> LowerChar(s[i])]

Includes(hay, needle) ==
    \E i \in 0..(Len(hay) - Len(needle)) :
        SubSeq(hay, i + 1, i + Len(needle)) = needle

\* JavaScript truthiness of an optional string: undefined and "" are falsy.
Truthy(o) == o # Absent /\ Val(o) # <<>>

----------------------------------------------------------------------------
(* The fetched reports.                                                    *)

flood == <<"f", "l", "o", "o", "d">>

SearchStrings == {<<>>, <<"f">>, <<"F">>, <<"f", "L">>}
LocationSearches == {<<>>, <<"l">>}
EngagementFilters == {"all", "high-engagement", "most-upvoted", "most-commented"}

Descriptions == {Absent, Some(<<"F", "l">>)}
LocationNames == {Absent, Some(<<"f">>), Some(<<"L">>)}
Emails == {Absent, Some(<<"F">>)}
Upvotes == {Absent, Some(0), Some(1)}
Comments == {Absent, Some(<<>>), Some(<<"c1", "c2">>)}

\* Reports that differ in the fields the filter reads.
TextReports ==
    [type : {flood}, description : Descriptions, locationName : LocationNames,
     email : Emails, upvotes : {Some(0)}, comments : {Some(<<>>)}]

\* Reports that differ in the fields the sort reads.
ScoreReports ==
    [type : {flood}, description : {Some(<<"F", "l">>)}, locationName : {Some(<<"f">>)},
     email : {Some(<<"F">>)}, upvotes : Upvotes, comments : Comments]

\* The backend gives every report of a list its own _id.
WithIds(s) ==
    [i \in 1..Len(s) |->
        [_id |-> i, type |-> s[i].type, description |-> s[i].description,
         locationName |-> s[i].locationName, email |-> s[i].email,
         upvotes |-> s[i].upvotes, comments |-> s[i].comments]]

TextLists == {WithIds(s) : s \in SeqsUpTo(TextReports, FilterLen)}
ScoreLists == {WithIds(s) : s \in SeqsUpTo(ScoreReports, SortLen)}

----------------------------------------------------------------------------
(* List derivation of the Reports page.                                    *)

\* MatchesSearch with the search string compared as typed.
MatchesSearchCaseSensitive(report, s) ==
    \/ /\ report.description # Absent
       /\ Includes(ToLowerCase(Val(report.description)), s)
    \/ /\ Truthy(report.locationName)
       /\ Includes(ToLowerCase(Val(report.locationName)), s)
    \/ /\ Truthy(report.email)
       /\ Includes(ToLowerCase(Val(report.email)), s)

\* report.description?.toLowerCase().includes(search.toLowerCase()) || ...
MatchesSearch(report, s) ==
    \/ /\ report.description # Absent
       /\ Includes(ToLowerCase(Val(report.description)), ToLowerCase(s))
    \/ /\ Truthy(report.locationName)
       /\ Includes(ToLowerCase(Val(report.locationName)), ToLowerCase(s))
    \/ /\ Truthy(report.email)
       /\ Includes(ToLowerCase(Val(report.email)), ToLowerCase(s))

\* !locationSearch || (report.locationName && ...includes(locationSearch.toLowerCase()))
MatchesLocation(report, l) ==
    \/ l = <<>>
    \/ /\ Truthy(report.locationName)
       /\ Includes(ToLowerCase(Val(report.locationName)), ToLowerCase(l))

FilterKeeps(report, s, l) == MatchesSearch(report, s) /\ MatchesLocation(report, l)

FilterReports(reports, s, l) ==
    LET Keep(report) == FilterKeeps(report, s, l)
    IN  SelectSeq(reports, Keep)

\* x || 0 of an optional number: undefined and 0 give 0.
OrZero(o) == IF o = Absent THEN 0 ELSE Val(o)

\* a.comments?.length
CommentsLength(report) ==
    IF report.comments = Absent THEN Absent ELSE Some(Len(Val(report.comments)))

\* EngagementScore without the comment count.
EngagementScoreUpvotesOnly(report) == OrZero(report.upvotes)

EngagementScore(report) == OrZero(report.upvotes) + OrZero(CommentsLength(report))

HighEngagementCompare(a, b) == Num(EngagementScore(b) - EngagementScore(a))

\* b.upvotes - a.upvotes: NaN when either operand is undefined.
MostUpvotedCompare(a, b) ==
    IF a.upvotes = Absent \/ b.upvotes = Absent
    THEN NaN
    ELSE Num(Val(b.upvotes) - Val(a.upvotes))

\* MostCommentedCompare with the operands exchanged (ascending).
MostCommentedCompareAscending(a, b) ==
    Num(OrZero(CommentsLength(a)) - OrZero(CommentsLength(b)))

MostCommentedCompare(a, b) ==
    Num(OrZero(CommentsLength(b)) - OrZero(CommentsLength(a)))

Comparefn(mode, a, b) ==
    CASE mode = "high-engagement" -> HighEngagementCompare(a, b)
      [] mode = "most-upvoted" -> MostUpvotedCompare(a, b)
      [] mode = "most-commented" -> MostCommentedCompare(a, b)

\* Array.prototype.sort's SortCompare: a comparator result of NaN counts as +0.
SortCompare(mode, a, b) ==
    LET v == Comparefn(mode, a, b)
    IN  IF v = NaN THEN 0 ELSE Val(v)

\* ECMA-262 Array.prototype.sort: the conditions of a consistent comparator,
\* where v[i][j] is the comparison of the i-th element with the j-th.
ConsistentComparisons(I, v) ==
    \A i \in I : \A j \in I :
        /\ v[i][i] = 0
        /\ v[i][j] = 0 => v[j][i] = 0
        /\ v[i][j] < 0 <=> v[j][i] > 0
        /\ \A k \in I :
              /\ v[i][j] = 0 /\ v[j][k] = 0 => v[i][k] = 0
              /\ v[i][j] < 0 /\ v[j][k] < 0 => v[i][k] < 0
              /\ v[i][j] > 0 /\ v[j][k] > 0 => v[i][k] > 0

ConsistentComparator(mode, s) ==
    \E v \in {[i \in 1..Len(s) |-> [j \in 1..Len(s) |-> SortCompare(mode, s[i], s[j])]]} :
        ConsistentComparisons(1..Len(s), v)

\* Stable insertion: x goes behind every element that does not compare greater.
RECURSIVE InsertSorted(_, _, _)
InsertSorted(mode, s, x) ==
    IF s = <<>> THEN <<x>>
    ELSE IF SortCompare(mode, s[Len(s)], x) > 0
         THEN Append(InsertSorted(mode, SubSeq(s, 1, Len(s) - 1), x), s[Len(s)])
         ELSE Append(s, x)

RECURSIVE StableSort(_, _)
StableSort(mode, s) ==
    IF s = <<>> THEN <<>>
    ELSE InsertSorted(mode, StableSort(mode, SubSeq(s, 1, Len(s) - 1)), s[Len(s)])

\* Every order of the elements of s.
RECURSIVE Reorderings(_)
Reorderings(s) ==
    IF s = <<>> THEN {<<>>}
    ELSE LET n == Len(s)
         IN  {SubSeq(t, 1, k) \o <<s[n]>> \o SubSeq(t, k + 1, n - 1) :
                 t \in Reorderings(SubSeq(s, 1, n - 1)), k \in 0..(n - 1)}

\* [...filteredReports].sort(comparefn): the stable sorted order; with a comparator
\* that is not consistent the order is implementation-defined.
SortOutcomes(mode, s) ==
    IF ConsistentComparator(mode, s)
    THEN {StableSort(mode, s)}
    ELSE Reorderings(s)

\* reportsData?.reports || []
ReportsOf(data) == IF data = Absent THEN <<>> ELSE Val(data)

\* The lists one render of Reports can display.
DisplayOutcomes(data, s, l, mode) ==
    UNION {IF mode = "all" THEN {filtered} ELSE SortOutcomes(mode, filtered) :
              filtered \in {FilterReports(ReportsOf(data), s, l)}}

Render ==
    filteredReports' \in
        DisplayOutcomes(reportsData', search', locationSearch', engagementFilter')

\* The query of the current key resolves with the backend's list.
QueryResolves(lists) ==
    /\ reportsData = Absent
    /\ \E L \in lists : reportsData' = Some(L)
    /\ UNCHANGED <<search, locationSearch, engagementFilter>>
    /\ Render
    /\ UNCHANGED authVars
    /\ UNCHANGED appVars

SetSearch ==
    /\ route = "reports"
    /\ \E s \in SearchStrings \ {search} : search' = s
    /\ UNCHANGED <<reportsData, locationSearch, engagementFilter>>
    /\ Render
    /\ UNCHANGED authVars
    /\ UNCHANGED appVars

SetLocationSearch ==
    /\ route = "reports"
    /\ \E l \in LocationSearches \ {locationSearch} : locationSearch' = l
    /\ UNCHANGED <<reportsData, search, engagementFilter>>
    /\ Render
    /\ UNCHANGED authVars
    /\ UNCHANGED appVars

\* SetEngagementFilter with the fetched array sorted in place: reports.sort(...).
SetEngagementFilterSortsSource ==
    /\ route = "reports"
    /\ \E e \in EngagementFilters \ {engagementFilter} :
          /\ engagementFilter' = e
          /\ IF e = "all" \/ reportsData = Absent
             THEN UNCHANGED reportsData
             ELSE \E sorted \in SortOutcomes(e, ReportsOf(reportsData)) :
                     reportsData' = Some(sorted)
    /\ UNCHANGED <<search, locationSearch>>
    /\ Render
    /\ UNCHANGED authVars
    /\ UNCHANGED appVars

SetEngagementFilter ==
    /\ route = "reports"
    /\ \E e \in EngagementFilters \ {engagementFilter} : engagementFilter' = e
    /\ UNCHANGED <<reportsData, search, locationSearch>>
    /\ Render
    /\ UNCHANGED authVars
    /\ UNCHANGED appVars

----------------------------------------------------------------------------
(* Screens, query keys and the backend's data.                             *)

ScreenRoutes == {"reports", "rider-reports", "users", "rider-performance"}

accident == <<"a", "c", "c", "i", "d", "e", "n", "t">>
allTypes == <<"a", "l", "l">>
TypeFilters == {allTypes, flood}
RiderEmails == {Null, Some(<<"f">>), Some(<<"L">>)}
UserSearches == {<<>>, <<"f">>}
RoleFilters == {"all", "free"}
Dates == {"", "2024-01-01"}
EmailFilters == {<<>>, <<"l">>}

\* A comment of a report, as GET /admin/reports returns it.
Comment(id, text) == [_id |-> id, text |-> text]

Report(id, type, email, comments) ==
    [_id |-> id, type |-> type, description |-> Some(<<"F", "l">>),
     locationName |-> Some(<<"L">>), email |-> Some(email), upvotes |-> Some(0),
     comments |-> Some(comments)]

\* The reports the backend holds when the screen is opened.
InitialReports ==
    <<Report(1, flood, <<"F">>, <<Comment(1, <<"h">>)>>),
      Report(2, accident, <<"l">>, <<>>)>>

User(id, email, role, isSuspended) ==
    [_id |-> id, email |-> email, role |-> role, isSuspended |-> isSuspended,
     suspensionReason |-> IF isSuspended THEN Some("spam") ELSE Absent]

\* The users the backend holds when the screen is opened.
InitialUsers ==
    <<User(1, <<"f">>, "free", FALSE),
      User(2, <<"l">>, "admin", FALSE),
      User(3, <<"L", "f">>, "premium", TRUE)>>

\* The riders GET /admin/rider-performance reports on.
Riders == <<[email |-> <<"F">>], [email |-> <<"l">>]>>

\* queryKey of each screen's useQuery.
ReportsKey(type) == <<"admin-reports", type>>
RiderReportsKey(email) == <<"rider-reports", email>>
\* The key of Users without the role filter in it.
UsersKeyWithoutRole(s, role) == <<"users", s, "all">>
UsersKey(s, role) == <<"users", s, role>>
PerformanceKey(start, end, email) == <<"rider-performance", start, end, email>>

KeysOf(r) ==
    CASE r = "reports" -> {ReportsKey(t) : t \in TypeFilters}
      [] r = "rider-reports" -> {RiderReportsKey(e) : e \in RiderEmails}
      [] r = "users" -> {UsersKey(s, f) : s \in UserSearches, f \in RoleFilters}
      [] r = "rider-performance" ->
            {PerformanceKey(s, e, f) : s \in Dates, e \in Dates, f \in EmailFilters}

\* params of each screen's queryFn: a parameter that is not set is Absent.
ReportsParams(type) == [type |-> IF type # allTypes THEN Some(type) ELSE Absent]
RiderReportsParams == [type |-> Absent]
UsersParams(s, role) ==
    [search |-> IF s # <<>> THEN Some(s) ELSE Absent,
     role |-> IF role # "all" THEN Some(role) ELSE Absent]
PerformanceParams(start, end, email) ==
    [startDate |-> IF start # "" THEN Some(start) ELSE Absent,
     endDate |-> IF end # "" THEN Some(end) ELSE Absent,
     email |-> IF email # <<>> THEN Some(email) ELSE Absent]

CurrentKeyOf(r, type, rider, s, role, start, end, email) ==
    CASE r = "reports" -> ReportsKey(type)
      [] r = "rider-reports" -> RiderReportsKey(rider)
      [] r = "users" -> UsersKey(s, role)
      [] r = "rider-performance" -> PerformanceKey(start, end, email)

\* The GET request the queryFn of the screen sends.
CurrentRequestOf(r, type, rider, s, role, start, end, email) ==
    CASE r = "reports" -> [path |-> "/admin/reports", params |-> ReportsParams(type)]
      [] r = "rider-reports" -> [path |-> "/admin/reports", params |-> RiderReportsParams]
      [] r = "users" -> [path |-> "/admin/users", params |-> UsersParams(s, role)]
      [] r = "rider-performance" ->
            [path |-> "/admin/rider-performance",
             params |-> PerformanceParams(start, end, email)]

CurrentKey ==
    CurrentKeyOf(route, typeFilter, riderEmail, userSearch, roleFilter,
                 startDate, endDate, emailFilter)

CurrentRequest ==
    CurrentRequestOf(route, typeFilter, riderEmail, userSearch, roleFilter,
                     startDate, endDate, emailFilter)

\* enabled: !!riderEmail on the rider-reports screen; the other queries are always enabled.
QueryEnabled == route = "rider-reports" => Truthy(riderEmail)

\* What the backend answers to a GET, from the data it holds.
Answer(request, reports, users) ==
    CASE request.path = "/admin/reports" ->
            SelectSeq(reports, LAMBDA r : request.params.type = Absent
                                          \/ r.type = Val(request.params.type))
      [] request.path = "/admin/users" ->
            SelectSeq(users, LAMBDA u :
                /\ request.params.role = Absent \/ u.role = Val(request.params.role)
                /\ request.params.search = Absent
                   \/ Includes(ToLowerCase(u.email), ToLowerCase(Val(request.params.search))))
      [] request.path = "/admin/rider-performance" ->
            [riders |-> SelectSeq(Riders, LAMBDA r :
                            request.params.email = Absent
                            \/ Includes(ToLowerCase(r.email),
                                        ToLowerCase(Val(request.params.email)))),
             period |-> <<request.params.startDate, request.params.endDate>>]

\* The useState initial values of the screens and of the detail modal.
ScreenDefaults ==
    /\ typeFilter = allTypes
    /\ userSearch = <<>>
    /\ roleFilter = "all"
    /\ startDate = ""
    /\ endDate = ""
    /\ emailFilter = <<>>
    /\ selectedReport = Null
    /\ newComment = <<>>

\* No request of a screen has been issued and no prompt is open.
NothingIssued ==
    /\ fetching = {}
    /\ prompting = Absent
    /\ mutating = {}
    /\ issued = 0
    /\ toast = "none"

BackendData ==
    /\ serverReports = InitialReports
    /\ serverUsers = InitialUsers

\* The router shows route r and its query has not been issued yet.
Unfetched(r) ==
    /\ route = r
    /\ cache = [k \in (IF r \in ScreenRoutes THEN KeysOf(r) ELSE {}) |-> Absent]
    /\ ScreenDefaults
    /\ NothingIssued
    /\ BackendData

----------------------------------------------------------------------------
(* Session holder.                                                         *)

Tokens == {"t1", "t2"}
NoToken == "none"
Roles == {"admin", "free", "premium"}
Identities == [id : {"u1", "u2"}, role : Roles]

\* What POST /auth/login can answer: { token, user }.
LoginResponses == [token : Tokens, user : Identities]

NoLogin == [response |-> Absent, settled |-> "none"]

\* InitAuthStart without the early return for a missing token.
InitAuthStartAlwaysValidates ==
    /\ initPc = "start"
    /\ meRequests' = meRequests + 1
    /\ initPc' = "awaiting"
    /\ UNCHANGED <<token, admin, loading, loginsInFlight, lastLogin>>
    /\ UNCHANGED reportVars
    /\ UNCHANGED appVars

\* InitAuthStart whose early return does not call setLoading(false).
InitAuthStartKeepsLoading ==
    /\ initPc = "start"
    /\ IF token = NoToken
       THEN /\ initPc' = "done"
            /\ UNCHANGED <<meRequests, loading>>
       ELSE /\ meRequests' = meRequests + 1
            /\ initPc' = "awaiting"
            /\ UNCHANGED loading
    /\ UNCHANGED <<token, admin, loginsInFlight, lastLogin>>
    /\ UNCHANGED reportVars
    /\ UNCHANGED appVars

\* useEffect(() => { initAuth() }, []) up to its first await.
InitAuthStart ==
    /\ initPc = "start"
    /\ IF token = NoToken
       THEN /\ loading' = FALSE
            /\ initPc' = "done"
            /\ UNCHANGED meRequests
       ELSE /\ meRequests' = meRequests + 1
            /\ initPc' = "awaiting"
            /\ UNCHANGED loading
    /\ UNCHANGED <<token, admin, loginsInFlight, lastLogin>>
    /\ UNCHANGED reportVars
    /\ UNCHANGED appVars

\* InitAuthResponse whose non-admin branch removes the token without setAdmin(null).
InitAuthResponseKeepsAdmin ==
    /\ initPc = "awaiting"
    /\ \E data \in Identities :
          IF data.role # "admin"
          THEN /\ token' = NoToken
               /\ UNCHANGED admin
          ELSE /\ admin' = Some(data)
               /\ UNCHANGED token
    /\ loading' = FALSE
    /\ initPc' = "done"
    /\ UNCHANGED <<meRequests, loginsInFlight, lastLogin>>
    /\ UNCHANGED reportVars
    /\ UNCHANGED appVars

\* GET /auth/me answers with an identity: the try block and finally.
InitAuthResponse ==
    /\ initPc = "awaiting"
    /\ \E data \in Identities :
          IF data.role # "admin"
          THEN /\ token' = NoToken
               /\ admin' = Null
          ELSE /\ admin' = Some(data)
               /\ UNCHANGED token
    /\ loading' = FALSE
    /\ initPc' = "done"
    /\ UNCHANGED <<meRequests, loginsInFlight, lastLogin>>
    /\ UNCHANGED reportVars
    /\ UNCHANGED appVars

\* InitAuthFailure without localStorage.removeItem in the catch block.
InitAuthFailureKeepsToken ==
    /\ initPc = "awaiting"
    /\ admin' = Null
    /\ loading' = FALSE
    /\ initPc' = "done"
    /\ UNCHANGED <<token, meRequests, loginsInFlight, lastLogin>>
    /\ UNCHANGED reportVars
    /\ UNCHANGED appVars

\* GET /auth/me fails: the catch block and finally.
InitAuthFailure ==
    /\ initPc = "awaiting"
    /\ token' = NoToken
    /\ admin' = Null
    /\ loading' = FALSE
    /\ initPc' = "done"
    /\ UNCHANGED <<meRequests, loginsInFlight, lastLogin>>
    /\ UNCHANGED reportVars
    /\ UNCHANGED appVars

\* login(email, password) up to its await: POST /auth/login is issued.  The mount
\* effect has run before any user event is handled.
LoginCall ==
    /\ route = "login"
    /\ initPc # "start"
    /\ loginsInFlight < MaxInFlight
    /\ loginsInFlight' = loginsInFlight + 1
    /\ UNCHANGED <<token, admin, loading, initPc, meRequests, lastLogin>>
    /\ UNCHANGED reportVars
    /\ UNCHANGED appVars

\* LoginResponse with the token stored before the role is looked at.
LoginResponseStoresFirst ==
    /\ loginsInFlight > 0
    /\ loginsInFlight' = loginsInFlight - 1
    /\ \E data \in LoginResponses :
          /\ token' = data.token
          /\ IF data.user.role # "admin"
             THEN /\ lastLogin' = [response |-> Some(data), settled |-> "access-denied"]
                  /\ UNCHANGED admin
             ELSE /\ admin' = Some(data.user)
                  /\ lastLogin' = [response |-> Some(data), settled |-> "resolved"]
    /\ UNCHANGED <<loading, initPc, meRequests>>
    /\ UNCHANGED reportVars
    /\ UNCHANGED appVars

\* POST /auth/login answers: the rest of login.
LoginResponse ==
    /\ loginsInFlight > 0
    /\ loginsInFlight' = loginsInFlight - 1
    /\ \E data \in LoginResponses :
          IF data.user.role # "admin"
          THEN /\ lastLogin' = [response |-> Some(data), settled |-> "access-denied"]
               /\ UNCHANGED <<token, admin>>
          ELSE /\ token' = data.token
               /\ admin' = Some(data.user)
               /\ lastLogin' = [response |-> Some(data), settled |-> "resolved"]
    /\ UNCHANGED <<loading, initPc, meRequests>>
    /\ UNCHANGED reportVars
    /\ UNCHANGED appVars

\* LoginFailure handled as initAuth handles a failed validation.
LoginFailureEndsSession ==
    /\ loginsInFlight > 0
    /\ loginsInFlight' = loginsInFlight - 1
    /\ lastLogin' = [response |-> Absent, settled |-> "request-failed"]
    /\ token' = NoToken
    /\ admin' = Null
    /\ UNCHANGED <<loading, initPc, meRequests>>
    /\ UNCHANGED reportVars
    /\ UNCHANGED appVars

\* POST /auth/login fails: the await throws and login rejects with that error.
LoginFailure ==
    /\ loginsInFlight > 0
    /\ loginsInFlight' = loginsInFlight - 1
    /\ lastLogin' = [response |-> Absent, settled |-> "request-failed"]
    /\ UNCHANGED <<token, admin, loading, initPc, meRequests>>
    /\ UNCHANGED reportVars
    /\ UNCHANGED appVars

\* Logout without localStorage.removeItem.
LogoutKeepsToken ==
    /\ ~loading
    /\ admin # Null
    /\ admin' = Null
    /\ UNCHANGED <<token, loading, initPc, meRequests, loginsInFlight, lastLogin>>
    /\ UNCHANGED reportVars
    /\ UNCHANGED appVars

\* AdminLayout's handleLogout, rendered by ProtectedRoute for a settled admin session.
Logout ==
    /\ ~loading
    /\ admin # Null
    /\ token' = NoToken
    /\ admin' = Null
    /\ UNCHANGED <<loading, initPc, meRequests, loginsInFlight, lastLogin>>
    /\ UNCHANGED reportVars
    /\ UNCHANGED appVars

\* The state after AuthProvider is constructed; an earlier session may have left a token.
InitAuth ==
    /\ token \in {NoToken} \cup Tokens
    /\ admin = Null
    /\ loading = TRUE
    /\ initPc = "start"
    /\ meRequests = 0
    /\ loginsInFlight = 0
    /\ lastLogin = NoLogin
    /\ reportsData = Absent
    /\ search = <<>>
    /\ locationSearch = <<>>
    /\ engagementFilter = "all"
    /\ filteredReports = <<>>
    /\ riderEmail = Null
    /\ Unfetched("login")

NextAuth ==
    \/ InitAuthStart
    \/ InitAuthResponse
    \/ InitAuthFailure
    \/ LoginCall
    \/ LoginResponse
    \/ LoginFailure
    \/ Logout

SpecAuth == InitAuth /\ [][NextAuth]_vars

\* The effect that runs initAuth is scheduled once the provider is mounted, and the
\* request to /auth/me is taken to complete or fail.
FairAuth ==
    /\ WF_vars(InitAuthStart)
    /\ WF_vars(InitAuthResponse \/ InitAuthFailure)

SpecAuthLive == SpecAuth /\ FairAuth

----------------------------------------------------------------------------
(* ProtectedRoute: what a protected path renders, and the way out of it.   *)

\* path="/": Dashboard under ProtectedRoute.  Every protected path is wrapped in
\* the same ProtectedRoute.
ProtectedPaths == {"dashboard"}

\* ProtectedRoute with the identity looked at before loading.
ProtectedRouteChecksAdminFirst(l, a) ==
    IF a = Null THEN "navigate"
    ELSE IF l THEN "spinner"
    ELSE "children"

\* What ProtectedRoute returns: the spinner, <Navigate to="/login" />, or the page
\* in AdminLayout.
ProtectedRoute(l, a) ==
    IF l THEN "spinner"
    ELSE IF a = Null THEN "navigate"
    ELSE "children"

\* What the router renders at the current path.
Rendered ==
    IF route \in ProtectedPaths THEN ProtectedRoute(loading, admin) ELSE "login"

\* The effect of the rendered <Navigate to="/login" />.
Navigate ==
    /\ route \in ProtectedPaths
    /\ ProtectedRoute(loading, admin) = "navigate"
    /\ route' = "login"
    /\ UNCHANGED <<typeFilter, riderEmail, userSearch, roleFilter, startDate, endDate, emailFilter>>
    /\ UNCHANGED <<queryVars, serverVars, modalVars, callVars>>
    /\ UNCHANGED reportVars
    /\ UNCHANGED authVars

\* AdminLayout.handleLogout: logout(); navigate("/login").
HandleLogout ==
    /\ route \in ProtectedPaths
    /\ ProtectedRoute(loading, admin) = "children"
    /\ token' = NoToken
    /\ admin' = Null
    /\ route' = "login"
    /\ UNCHANGED <<loading, initPc, meRequests, loginsInFlight, lastLogin>>
    /\ UNCHANGED <<typeFilter, riderEmail, userSearch, roleFilter, startDate, endDate, emailFilter>>
    /\ UNCHANGED <<queryVars, serverVars, modalVars, callVars>>
    /\ UNCHANGED reportVars

\* The application is opened at /login or at a protected path.
InitRoute ==
    /\ token \in {NoToken} \cup Tokens
    /\ admin = Null
    /\ loading = TRUE
    /\ initPc = "start"
    /\ meRequests = 0
    /\ loginsInFlight = 0
    /\ lastLogin = NoLogin
    /\ reportsData = Absent
    /\ search = <<>>
    /\ locationSearch = <<>>
    /\ engagementFilter = "all"
    /\ filteredReports = <<>>
    /\ riderEmail = Null
    /\ \E r \in {"login"} \cup ProtectedPaths : Unfetched(r)

NextRoute ==
    \/ InitAuthStart
    \/ InitAuthResponse
    \/ InitAuthFailure
    \/ LoginCall
    \/ LoginResponse
    \/ LoginFailure
    \/ Navigate
    \/ HandleLogout

SpecRoute == InitRoute /\ [][NextRoute]_vars

\* The effect of a rendered <Navigate> runs once it is committed.
SpecRouteLive == SpecRoute /\ FairAuth /\ WF_vars(Navigate)

\* The Reports page is mounted under ProtectedRoute: a validated admin session.
AuthSettled ==
    /\ token = "t1"
    /\ admin = Some([id |-> "u1", role |-> "admin"])
    /\ loading = FALSE
    /\ initPc = "done"
    /\ meRequests = 1
    /\ loginsInFlight = 0
    /\ lastLogin = NoLogin

ReportsMounted ==
    /\ reportsData = Absent
    /\ search = <<>>
    /\ locationSearch = <<>>
    /\ engagementFilter = "all"
    /\ filteredReports = <<>>
    /\ riderEmail = Null
    /\ Unfetched("reports")

InitFilter == ReportsMounted /\ AuthSettled

QueryResolvesText == QueryResolves(TextLists)

NextFilter ==
    \/ QueryResolvesText
    \/ SetSearch
    \/ SetLocationSearch
    \/ SetEngagementFilter

SpecFilter == InitFilter /\ [][NextFilter]_vars

InitSort == ReportsMounted /\ AuthSettled

QueryResolvesScores == QueryResolves(ScoreLists)

NextSort ==
    \/ QueryResolvesScores
    \/ SetEngagementFilter

SpecSort == InitSort /\ [][NextSort]_vars

----------------------------------------------------------------------------
(* The variant of Reports that reads the email parameter of the URL.  Its  *)
(* filter and sort are those of the other variant; it keeps the state of   *)
(* the second input under the name countrySearch and initialises it from   *)
(* the parameter.                                                          *)

\* searchParams.get("email"): the email parameter of the URL.
emailFromUrl == riderEmail

\* useState(emailFromUrl || ""): the state of the second input.
countrySearch == locationSearch

\* emailFromUrl || ""
InitialCountrySearch(email) == IF Truthy(email) THEN Val(email) ELSE <<>>

\* The banner 'Viewing reports by rider' is rendered: emailFromUrl && (...).
BannerShown == Truthy(emailFromUrl)

\* Reports has mounted at /reports?email=... (or without the parameter), under
\* ProtectedRoute.
InitEmail ==
    /\ AuthSettled
    /\ reportsData = Absent
    /\ search = <<>>
    /\ riderEmail \in RiderEmails
    /\ locationSearch = InitialCountrySearch(riderEmail)
    /\ engagementFilter = "all"
    /\ filteredReports = <<>>
    /\ Unfetched("reports")

\* onChange of the input 'Filter by rider email...': setCountrySearch.
SetCountrySearch ==
    /\ route = "reports"
    /\ \E c \in (LocationSearches \cup {Val(e) : e \in RiderEmails \ {Null}}) \ {locationSearch} :
          locationSearch' = c
    /\ UNCHANGED <<reportsData, search, engagementFilter>>
    /\ Render
    /\ UNCHANGED authVars
    /\ UNCHANGED appVars

\* clearEmailFilter: setCountrySearch(""); setSearchParams({}).
ClearEmailFilter ==
    /\ route = "reports"
    /\ BannerShown
    /\ locationSearch' = <<>>
    /\ riderEmail' = Null
    /\ UNCHANGED <<reportsData, search, engagementFilter>>
    /\ Render
    /\ UNCHANGED authVars
    /\ UNCHANGED <<route, typeFilter, userSearch, roleFilter, startDate, endDate, emailFilter>>
    /\ UNCHANGED <<queryVars, serverVars, modalVars, callVars>>

NextEmail ==
    \/ QueryResolvesText
    \/ SetSearch
    \/ SetCountrySearch
    \/ ClearEmailFilter

SpecEmail == InitEmail /\ [][NextEmail]_vars

----------------------------------------------------------------------------
(* Queries: one cache slot per key, filled by the fetches of that key.     *)

FetchOf(k, request) == [key |-> k, request |-> request]

\* The observer of a key that is not being fetched starts a fetch of it
\* (staleTime is 0: cached data is shown and fetched again).
StartFetch(F, k, request) ==
    IF \E f \in F : f.key = k THEN F ELSE F \cup {FetchOf(k, request)}

\* invalidateQueries on the displayed key: a fetch of it in flight is cancelled
\* and the key is fetched again.
Refetch(F, k, request) == {f \in F : f.key # k} \cup {FetchOf(k, request)}

\* riderReports of RiderReports
RiderReportsOf(data, rider) ==
    IF ~Truthy(rider) THEN <<>>
    ELSE SelectSeq(ReportsOf(data), LAMBDA r :
             r.email # Absent /\ ToLowerCase(Val(r.email)) = ToLowerCase(Val(rider)))

\* usersData?.users || []
UsersOf(data) == IF data = Absent THEN <<>> ELSE Val(data)

\* The render after a step: useQuery returns the slot of the current key and the
\* screen derives its list from it.
RenderScreen ==
    /\ reportsData' = IF route' \in {"reports", "rider-reports"}
                      THEN cache'[CurrentKey']
                      ELSE Absent
    /\ CASE route' = "reports" -> Render
         [] route' = "rider-reports" ->
               filteredReports' = RiderReportsOf(reportsData', riderEmail')
         [] OTHER -> filteredReports' = <<>>

\* A filter input that is part of the query key changed: the new key is observed.
ObserveNewKey ==
    /\ fetching' = StartFetch(fetching, CurrentKey', CurrentRequest')
    /\ Cardinality(fetching') <= MaxFetching
    /\ UNCHANGED cache
    /\ UNCHANGED <<search, locationSearch, engagementFilter>>
    /\ RenderScreen
    /\ UNCHANGED <<authVars, serverVars, modalVars, callVars>>

SetTypeFilter ==
    /\ route = "reports"
    /\ prompting = Absent
    /\ \E t \in TypeFilters \ {typeFilter} : typeFilter' = t
    /\ UNCHANGED <<route, riderEmail, userSearch, roleFilter, startDate, endDate, emailFilter>>
    /\ ObserveNewKey

SetUserSearch ==
    /\ route = "users"
    /\ prompting = Absent
    /\ \E s \in UserSearches \ {userSearch} : userSearch' = s
    /\ UNCHANGED <<route, typeFilter, riderEmail, roleFilter, startDate, endDate, emailFilter>>
    /\ ObserveNewKey

SetRoleFilter ==
    /\ route = "users"
    /\ prompting = Absent
    /\ \E r \in RoleFilters \ {roleFilter} : roleFilter' = r
    /\ UNCHANGED <<route, typeFilter, riderEmail, userSearch, startDate, endDate, emailFilter>>
    /\ ObserveNewKey

SetStartDate ==
    /\ route = "rider-performance"
    /\ prompting = Absent
    /\ \E d \in Dates \ {startDate} : startDate' = d
    /\ UNCHANGED <<route, typeFilter, riderEmail, userSearch, roleFilter, endDate, emailFilter>>
    /\ ObserveNewKey

SetEndDate ==
    /\ route = "rider-performance"
    /\ prompting = Absent
    /\ \E d \in Dates \ {endDate} : endDate' = d
    /\ UNCHANGED <<route, typeFilter, riderEmail, userSearch, roleFilter, startDate, emailFilter>>
    /\ ObserveNewKey

SetEmailFilter ==
    /\ route = "rider-performance"
    /\ prompting = Absent
    /\ \E e \in EmailFilters \ {emailFilter} : emailFilter' = e
    /\ UNCHANGED <<route, typeFilter, riderEmail, userSearch, roleFilter, startDate, endDate>>
    /\ ObserveNewKey

\* FetchResolves with a single slot: the response replaces the displayed data.
FetchResolvesIntoCurrentKey ==
    /\ prompting = Absent
    /\ \E f \in fetching :
          /\ cache' = [cache EXCEPT ![CurrentKey] =
                          Some(Answer(f.request, serverReports, serverUsers))]
          /\ fetching' = fetching \ {f}
    /\ UNCHANGED screenVars
    /\ UNCHANGED <<search, locationSearch, engagementFilter>>
    /\ RenderScreen
    /\ UNCHANGED <<authVars, serverVars, modalVars, callVars>>

\* The response of a GET arrives: it is stored under the key it was fetched for.
FetchResolves ==
    /\ prompting = Absent
    /\ \E f \in fetching :
          /\ cache' = [cache EXCEPT ![f.key] =
                          Some(Answer(f.request, serverReports, serverUsers))]
          /\ fetching' = fetching \ {f}
    /\ UNCHANGED screenVars
    /\ UNCHANGED <<search, locationSearch, engagementFilter>>
    /\ RenderScreen
    /\ UNCHANGED <<authVars, serverVars, modalVars, callVars>>

\* The API client rejects the promise of a failed request; it attaches the stored
\* token to requests and does nothing else with it.
ApiClientRejects == UNCHANGED token

\* A GET fails: the slot keeps what it held.
FetchFails ==
    /\ prompting = Absent
    /\ \E f \in fetching : fetching' = fetching \ {f}
    /\ UNCHANGED cache
    /\ UNCHANGED screenVars
    /\ UNCHANGED <<search, locationSearch, engagementFilter>>
    /\ RenderScreen
    /\ ApiClientRejects
    /\ UNCHANGED <<admin, loading, initPc, meRequests, loginsInFlight, lastLogin>>
    /\ UNCHANGED <<serverVars, modalVars, callVars>>

\* A screen under ProtectedRoute has just been mounted: useQuery has issued the
\* fetch of its key if the query is enabled.
ScreenMounted(r) ==
    /\ route = r
    /\ riderEmail \in (IF r = "rider-reports" THEN RiderEmails ELSE {Null})
    /\ ScreenDefaults
    /\ cache = [k \in KeysOf(r) |-> Absent]
    /\ fetching = IF QueryEnabled THEN {FetchOf(CurrentKey, CurrentRequest)} ELSE {}
    /\ prompting = Absent
    /\ mutating = {}
    /\ issued = 0
    /\ toast = "none"
    /\ BackendData
    /\ reportsData = Absent
    /\ search = <<>>
    /\ locationSearch = <<>>
    /\ engagementFilter = "all"
    /\ filteredReports = <<>>

InitKeys == AuthSettled /\ \E r \in ScreenRoutes : ScreenMounted(r)

NextKeys ==
    \/ SetTypeFilter
    \/ SetUserSearch
    \/ SetRoleFilter
    \/ SetStartDate
    \/ SetEndDate
    \/ SetEmailFilter
    \/ SetSearch
    \/ SetLocationSearch
    \/ SetEngagementFilter
    \/ FetchResolves
    \/ FetchFails

SpecKeys == InitKeys /\ [][NextKeys]_vars

----------------------------------------------------------------------------
(* Prompts, mutations and the detail modal.                                *)

\* What prompt() can return: null when cancelled, else the text typed.
PromptInputs == {Null, Some(""), Some("delete"), Some("DELETE")}

\* The comment drafts typed.
Drafts == {<<>>, <<" ">>, <<"h", " ">>}

\* String.prototype.trim
RECURSIVE Trim(_)
Trim(s) ==
    IF s = <<>> THEN <<>>
    ELSE IF Head(s) = " " THEN Trim(Tail(s))
    ELSE IF s[Len(s)] = " " THEN Trim(SubSeq(s, 1, Len(s) - 1))
    ELSE s

\* A truthy string | null
TruthyText(o) == o # Null /\ Val(o) # ""

\* A request of a useMutation (or of handleExport) awaiting its response.  mounted
\* tells whether the component that issued it is still mounted.
Call(kind, origin, id, commentId, text, reason) ==
    [kind |-> kind, origin |-> origin, mounted |-> TRUE, n |-> issued + 1,
     id |-> id, commentId |-> commentId, text |-> text, reason |-> reason]

\* mutation.isPending of a mounted component
Pending(kind, origin) ==
    \E m \in mutating : m.kind = kind /\ m.origin = origin /\ m.mounted

\* mutation.mutate(...)
Issue(m) ==
    /\ mutating' = mutating \cup {m}
    /\ issued' = issued + 1

\* The components of origin are unmounted: their requests stay in flight.
Detach(M, origins) ==
    {IF m.origin \in origins THEN [m EXCEPT !.mounted = FALSE] ELSE m : m \in M}

\* A handler has called prompt() or confirm() and the operator has answered.
Prompted(handler, origin, id, commentId) ==
    /\ prompting = Absent
    /\ issued < MaxCalls
    /\ \E input \in PromptInputs :
          prompting' = Some([handler |-> handler, origin |-> origin, id |-> id,
                             commentId |-> commentId, input |-> input,
                             confirmed |-> FALSE])
    /\ UNCHANGED <<mutating, issued, toast>>
    /\ UNCHANGED <<reportVars, authVars, screenVars, queryVars, serverVars, modalVars>>

\* handleDelete of Reports and of RiderReports, up to the return of prompt().
HandleDelete ==
    /\ route \in {"reports", "rider-reports"}
    /\ ~Pending("delete-report", route)
    /\ \E i \in 1..Len(filteredReports) :
          Prompted("handleDelete", route, filteredReports[i]._id, 0)

\* handleDeleteReport of the detail modal, up to the return of prompt().
HandleDeleteReport ==
    /\ selectedReport # Null
    /\ ~Pending("delete-report", "modal")
    /\ Prompted("handleDeleteReport", "modal", Val(selectedReport)._id, 0)

\* handleDeleteComment of the detail modal, up to the return of prompt().
HandleDeleteComment ==
    /\ selectedReport # Null
    /\ ~Pending("delete-comment", "modal")
    /\ Val(selectedReport).comments # Absent
    /\ \E i \in 1..Len(Val(Val(selectedReport).comments)) :
          Prompted("handleDeleteComment", "modal", Val(selectedReport)._id,
                   Val(Val(selectedReport).comments)[i]._id)

\* ActionRows with the actions shown on every row.
ActionRowsOfEveryUser == 1..Len(UsersOf(cache[CurrentKey]))

\* The rows of Users that show actions: every user but the admins.
ActionRows == {i \in 1..Len(UsersOf(cache[CurrentKey])) :
                   UsersOf(cache[CurrentKey])[i].role # "admin"}

\* handleDelete of Users, up to the return of prompt().
HandleDeleteUser ==
    /\ route = "users"
    /\ ~Pending("delete-user", "users")
    /\ \E i \in ActionRows :
          Prompted("handleDeleteUser", "users", UsersOf(cache[CurrentKey])[i]._id, 0)

\* handleSuspend of Users, up to the return of prompt().
HandleSuspend ==
    /\ route = "users"
    /\ ~Pending("suspend", "users")
    /\ \E i \in ActionRows :
          /\ ~UsersOf(cache[CurrentKey])[i].isSuspended
          /\ Prompted("handleSuspend", "users", UsersOf(cache[CurrentKey])[i]._id, 0)

\* handleUnsuspend of Users, up to the return of confirm().
HandleUnsuspend ==
    /\ route = "users"
    /\ ~Pending("unsuspend", "users")
    /\ prompting = Absent
    /\ issued < MaxCalls
    /\ \E i \in ActionRows, ok \in BOOLEAN :
          /\ UsersOf(cache[CurrentKey])[i].isSuspended
          /\ prompting' = Some([handler |-> "handleUnsuspend", origin |-> "users",
                                id |-> UsersOf(cache[CurrentKey])[i]._id,
                                commentId |-> 0, input |-> Null, confirmed |-> ok])
    /\ UNCHANGED <<mutating, issued, toast>>
    /\ UNCHANGED <<reportVars, authVars, screenVars, queryVars, serverVars, modalVars>>

\* Confirmed with the word compared ignoring case.
ConfirmedIgnoringCase(p) ==
    CASE p.handler = "handleSuspend" -> TruthyText(p.input)
      [] p.handler = "handleUnsuspend" -> p.confirmed
      [] OTHER -> p.input \in {Some("DELETE"), Some("delete")}

\* Confirmed with handleSuspend testing only that the prompt was not cancelled.
ConfirmedUnlessCancelled(p) ==
    CASE p.handler = "handleSuspend" -> p.input # Null
      [] p.handler = "handleUnsuspend" -> p.confirmed
      [] OTHER -> p.input = Some("DELETE")

\* The test each handler makes on what prompt() or confirm() returned.
Confirmed(p) ==
    CASE p.handler = "handleSuspend" -> TruthyText(p.input)
      [] p.handler = "handleUnsuspend" -> p.confirmed
      [] OTHER -> p.input = Some("DELETE")

\* The mutation each handler issues.
CallOf(p) ==
    CASE p.handler \in {"handleDelete", "handleDeleteReport"} ->
            Call("delete-report", p.origin, p.id, 0, <<>>, "")
      [] p.handler = "handleDeleteComment" ->
            Call("delete-comment", p.origin, p.id, p.commentId, <<>>, "")
      [] p.handler = "handleDeleteUser" -> Call("delete-user", p.origin, p.id, 0, <<>>, "")
      [] p.handler = "handleSuspend" -> Call("suspend", p.origin, p.id, 0, <<>>, Val(p.input))
      [] p.handler = "handleUnsuspend" -> Call("unsuspend", p.origin, p.id, 0, <<>>, "")

\* The rest of a handler after prompt() or confirm() returned.
AfterPrompt ==
    /\ prompting # Absent
    /\ IF Confirmed(Val(prompting))
       THEN Issue(CallOf(Val(prompting)))
       ELSE UNCHANGED <<mutating, issued>>
    /\ prompting' = Absent
    /\ UNCHANGED toast
    /\ UNCHANGED <<reportVars, authVars, screenVars, queryVars, serverVars, modalVars>>

\* A row of the list is clicked: setSelectedReport(report).
OpenModal ==
    /\ route \in {"reports", "rider-reports"}
    /\ prompting = Absent
    /\ \E i \in 1..Len(filteredReports) :
          /\ selectedReport # Some(filteredReports[i])
          /\ selectedReport' = Some(filteredReports[i])
    /\ UNCHANGED newComment
    /\ UNCHANGED <<reportVars, authVars, screenVars, queryVars, serverVars, callVars>>

\* onClose of the detail modal: setSelectedReport(null) unmounts it.
CloseModal ==
    /\ selectedReport # Null
    /\ prompting = Absent
    /\ selectedReport' = Null
    /\ newComment' = <<>>
    /\ mutating' = Detach(mutating, {"modal"})
    /\ UNCHANGED <<prompting, issued, toast>>
    /\ UNCHANGED <<reportVars, authVars, screenVars, queryVars, serverVars>>

\* onChange of the comment input
SetNewComment ==
    /\ selectedReport # Null
    /\ prompting = Absent
    /\ ~Pending("add-comment", "modal")
    /\ \E d \in Drafts \ {newComment} : newComment' = d
    /\ UNCHANGED selectedReport
    /\ UNCHANGED <<reportVars, authVars, screenVars, queryVars, serverVars, callVars>>

\* handleAddComment: the form of the detail modal is submitted.
HandleAddComment ==
    /\ selectedReport # Null
    /\ prompting = Absent
    /\ ~Pending("add-comment", "modal")
    /\ Trim(newComment) # <<>>
    /\ issued < MaxCalls
    /\ Issue(Call("add-comment", "modal", Val(selectedReport)._id, 0, Trim(newComment), ""))
    /\ UNCHANGED <<prompting, toast>>
    /\ UNCHANGED <<reportVars, authVars, screenVars, queryVars, serverVars, modalVars>>

\* handleExport of Reports up to its await; one export awaits its response at a time.
HandleExport ==
    /\ route = "reports"
    /\ prompting = Absent
    /\ issued < MaxCalls
    /\ ~Pending("export", route)
    /\ Issue(Call("export", route, 0, 0, <<>>, ""))
    /\ UNCHANGED <<prompting, toast>>
    /\ UNCHANGED <<reportVars, authVars, screenVars, queryVars, serverVars, modalVars>>

\* What the backend does with a request it accepts.
HasReport(reports, id) == \E i \in 1..Len(reports) : reports[i]._id = id

HasComment(reports, id, commentId) ==
    \E i \in 1..Len(reports) :
       /\ reports[i]._id = id
       /\ \E j \in 1..Len(Val(reports[i].comments)) :
             Val(reports[i].comments)[j]._id = commentId

HasUser(users, id) == \E i \in 1..Len(users) : users[i]._id = id

\* The backend can answer the request with success.
Accepts(m) ==
    CASE m.kind \in {"delete-report", "add-comment"} -> HasReport(serverReports, m.id)
      [] m.kind = "delete-comment" -> HasComment(serverReports, m.id, m.commentId)
      [] m.kind \in {"suspend", "unsuspend", "delete-user"} -> HasUser(serverUsers, m.id)
      [] m.kind = "export" -> TRUE

ReportsAfter(m, reports) ==
    CASE m.kind = "delete-report" -> SelectSeq(reports, LAMBDA r : r._id # m.id)
      [] m.kind = "delete-comment" ->
            [i \in 1..Len(reports) |->
                IF reports[i]._id = m.id
                THEN [reports[i] EXCEPT !.comments =
                         Some(SelectSeq(Val(@), LAMBDA c : c._id # m.commentId))]
                ELSE reports[i]]
      [] m.kind = "add-comment" ->
            [i \in 1..Len(reports) |->
                IF reports[i]._id = m.id
                THEN [reports[i] EXCEPT !.comments =
                         Some(Append(Val(@), Comment(m.n + 1, m.text)))]
                ELSE reports[i]]
      [] OTHER -> reports

UsersAfter(m, users) ==
    CASE m.kind = "delete-user" -> SelectSeq(users, LAMBDA u : u._id # m.id)
      [] m.kind = "suspend" ->
            [i \in 1..Len(users) |->
                IF users[i]._id = m.id
                THEN [users[i] EXCEPT !.isSuspended = TRUE,
                                      !.suspensionReason = Some(m.reason)]
                ELSE users[i]]
      [] m.kind = "unsuspend" ->
            [i \in 1..Len(users) |->
                IF users[i]._id = m.id
                THEN [users[i] EXCEPT !.isSuspended = FALSE, !.suspensionReason = Absent]
                ELSE users[i]]
      [] OTHER -> users

\* The first elements of the query keys the onSuccess of a mutation invalidates.
Invalidated(m) ==
    CASE m.origin = "modal" /\ m.kind = "delete-comment" -> {"admin-reports", "report-detail"}
      [] m.origin = "modal" /\ m.kind # "delete-comment" -> {"admin-reports"}
      [] m.origin = "reports" /\ m.kind = "delete-report" -> {"admin-reports"}
      [] m.origin = "rider-reports" -> {"rider-reports"}
      [] m.origin = "users" -> {"users"}
      [] OTHER -> {}

\* invalidateQueries({ queryKey: [prefix] }): the query a mounted screen observes
\* is fetched again if its key starts with the prefix.
InvalidateQueries(prefixes) ==
    fetching' = IF route \in ScreenRoutes /\ QueryEnabled /\ CurrentKey[1] \in prefixes
                THEN Refetch(fetching, CurrentKey, CurrentRequest)
                ELSE fetching

\* The onSuccess of the detail modal's deleteReportMutation calls onClose.
ClosesModal(m) == m.kind = "delete-report" /\ m.origin = "modal"

\* MutationSucceeds with the deleted report also removed from the cached lists.
MutationSucceedsOptimistic ==
    /\ prompting = Absent
    /\ \E m \in mutating :
          /\ Accepts(m)
          /\ serverReports' = ReportsAfter(m, serverReports)
          /\ serverUsers' = UsersAfter(m, serverUsers)
          /\ InvalidateQueries(Invalidated(m))
          /\ cache' = IF route \in {"reports", "rider-reports"}
                      THEN [k \in DOMAIN cache |->
                               IF cache[k] = Absent THEN Absent
                               ELSE Some(ReportsAfter(m, Val(cache[k])))]
                      ELSE cache
          /\ toast' = "success"
          /\ selectedReport' = IF ClosesModal(m) THEN Null ELSE selectedReport
          /\ newComment' = IF ClosesModal(m) \/ (m.kind = "add-comment" /\ m.mounted)
                           THEN <<>>
                           ELSE newComment
          /\ mutating' = IF ClosesModal(m)
                         THEN Detach(mutating \ {m}, {"modal"})
                         ELSE mutating \ {m}
    /\ UNCHANGED <<prompting, issued>>
    /\ UNCHANGED <<authVars, screenVars>>
    /\ UNCHANGED <<search, locationSearch, engagementFilter>>
    /\ RenderScreen

\* The backend carries out a request and its response arrives: onSuccess runs
\* (for an export: the rest of the try block).
MutationSucceeds ==
    /\ prompting = Absent
    /\ \E m \in mutating :
          /\ Accepts(m)
          /\ serverReports' = ReportsAfter(m, serverReports)
          /\ serverUsers' = UsersAfter(m, serverUsers)
          /\ InvalidateQueries(Invalidated(m))
          /\ toast' = "success"
          /\ selectedReport' = IF ClosesModal(m) THEN Null ELSE selectedReport
          /\ newComment' = IF ClosesModal(m) \/ (m.kind = "add-comment" /\ m.mounted)
                           THEN <<>>
                           ELSE newComment
          /\ mutating' = IF ClosesModal(m)
                         THEN Detach(mutating \ {m}, {"modal"})
                         ELSE mutating \ {m}
    /\ UNCHANGED <<cache, prompting, issued>>
    /\ UNCHANGED <<authVars, screenVars>>
    /\ UNCHANGED <<search, locationSearch, engagementFilter>>
    /\ RenderScreen

\* MutationFails with the queries invalidated as onSuccess does.
MutationFailsInvalidates ==
    /\ prompting = Absent
    /\ \E m \in mutating :
          /\ mutating' = mutating \ {m}
          /\ InvalidateQueries(Invalidated(m))
    /\ toast' = "error"
    /\ UNCHANGED <<cache, prompting, issued>>
    /\ UNCHANGED <<authVars, screenVars, serverVars, modalVars>>
    /\ UNCHANGED <<search, locationSearch, engagementFilter>>
    /\ RenderScreen

\* MutationFails with the modal state reset as onSuccess does.
MutationFailsResetsModal ==
    /\ prompting = Absent
    /\ \E m \in mutating : mutating' = mutating \ {m}
    /\ toast' = "error"
    /\ newComment' = <<>>
    /\ UNCHANGED selectedReport
    /\ UNCHANGED <<prompting, issued>>
    /\ UNCHANGED <<reportVars, authVars, screenVars, queryVars, serverVars>>

\* A request fails: onError runs (for an export: the catch block).
MutationFails ==
    /\ prompting = Absent
    /\ \E m \in mutating : mutating' = mutating \ {m}
    /\ toast' = "error"
    /\ UNCHANGED <<prompting, issued>>
    /\ ApiClientRejects
    /\ UNCHANGED <<admin, loading, initPc, meRequests, loginsInFlight, lastLogin>>
    /\ UNCHANGED <<reportVars, screenVars, queryVars, serverVars, modalVars>>

\* The login page is shown and AuthProvider has just been constructed.
LoginPage == InitAuth

\* A screen that issues mutations has just been mounted for a validated admin.
ScreenPage == AuthSettled /\ \E r \in {"reports", "rider-reports", "users"} : ScreenMounted(r)

\* The application after construction, by the page it shows.
Init == LoginPage \/ ScreenPage

Next ==
    \/ SetTypeFilter
    \/ SetUserSearch
    \/ SetRoleFilter
    \/ FetchResolves
    \/ FetchFails
    \/ OpenModal
    \/ CloseModal
    \/ SetNewComment
    \/ HandleAddComment
    \/ HandleDelete
    \/ HandleDeleteReport
    \/ HandleDeleteComment
    \/ HandleDeleteUser
    \/ HandleSuspend
    \/ HandleUnsuspend
    \/ AfterPrompt
    \/ HandleExport
    \/ MutationSucceeds
    \/ MutationFails
    \/ InitAuthStart
    \/ InitAuthResponse
    \/ InitAuthFailure
    \/ LoginCall
    \/ LoginResponse
    \/ LoginFailure

Spec == Init /\ [][Next]_vars

----------------------------------------------------------------------------
(* Properties of the list derivation.                                      *)

\* s is a case-insensitive substring of the optional string field.
ContainsIgnoringCase(field, s) ==
    field # Absent /\ Includes(ToLowerCase(Val(field)), ToLowerCase(s))

SearchHits(report, s) ==
    \/ ContainsIgnoringCase(report.description, s)
    \/ ContainsIgnoringCase(report.locationName, s)
    \/ ContainsIgnoringCase(report.email, s)

Displayed(report) == \E i \in 1..Len(filteredReports) : filteredReports[i] = report

BaseList == ReportsOf(reportsData)

UpvotesOrZero(report) == IF report.upvotes = Absent THEN 0 ELSE Val(report.upvotes)
CommentCount(report) == IF report.comments = Absent THEN 0 ELSE Len(Val(report.comments))

NonIncreasing(s, Key(_)) == \A i \in 1..(Len(s) - 1) : Key(s[i]) >= Key(s[i + 1])

RECURSIVE IsSubsequence(_, _)
IsSubsequence(a, b) ==
    IF a = <<>> THEN TRUE
    ELSE IF b = <<>> THEN FALSE
    ELSE IF Head(a) = Head(b) THEN IsSubsequence(Tail(a), Tail(b))
    ELSE IsSubsequence(a, Tail(b))

Ids(s) == [i \in 1..Len(s) |-> s[i]._id]

\* The list with every missing upvotes replaced by 0 and every missing comments by [].
WithDefaults(s) ==
    [i \in 1..Len(s) |->
        [s[i] EXCEPT !.upvotes = IF @ = Absent THEN Some(0) ELSE @,
                     !.comments = IF @ = Absent THEN Some(<<>>) ELSE @]]

\* C1: a fetched report is displayed if and only if (the search is empty or is a
\* case-insensitive substring of its description, location name or reporter email)
\* and (the location filter is empty or its location name contains the filter,
\* ignoring case); without a location name it is never displayed under a
\* non-empty location filter.
C1_FilterKeepsExactly ==
    \A i \in 1..Len(BaseList) :
        LET report == BaseList[i]
        IN  /\ Displayed(report) <=>
                 /\ search = <<>> \/ SearchHits(report, search)
                 /\ locationSearch = <<>>
                      \/ ContainsIgnoringCase(report.locationName, locationSearch)
            /\ report.locationName = Absent /\ locationSearch # <<>> => ~Displayed(report)

\* C2: with the search empty, the location filter empty and the engagement
\* selector at "all", the displayed list is the fetched list, element for element.
C2_ClearedShowsBaseList ==
    search = <<>> /\ locationSearch = <<>> /\ engagementFilter = "all"
        => filteredReports = BaseList

\* C3: with no sort selected the displayed list is a subsequence of the fetched
\* list, and clearing a non-empty search (no location filter, no sort) displays
\* the fetched list again in its original order.
C3_FilterPreservesOrder ==
    [][/\ engagementFilter' = "all" => IsSubsequence(filteredReports', ReportsOf(reportsData'))
       /\ /\ search # <<>>
          /\ search' = <<>>
          /\ locationSearch' = <<>>
          /\ engagementFilter' = "all"
          => filteredReports' = ReportsOf(reportsData')]_vars

\* C4: under "most-upvoted" the displayed list is non-increasing in upvotes from
\* first to last (a missing upvotes value counting as 0).
C4_MostUpvotedNonIncreasing ==
    engagementFilter = "most-upvoted" => NonIncreasing(filteredReports, UpvotesOrZero)

\* C5: under "high-engagement" the displayed list is non-increasing in upvotes plus
\* number of comments, a missing upvotes or comments counting as 0.
C5_HighEngagementNonIncreasing ==
    engagementFilter = "high-engagement" =>
        LET Score(report) == UpvotesOrZero(report) + CommentCount(report)
        IN  NonIncreasing(filteredReports, Score)

C5_Witness ==
    /\ engagementFilter = "high-engagement"
    /\ Len(filteredReports) = 3
    /\ filteredReports # BaseList
    /\ \E i \in 1..3 : filteredReports[i].upvotes = Absent
    /\ \E i \in 1..3 : filteredReports[i].comments = Absent
    /\ UpvotesOrZero(filteredReports[1]) + CommentCount(filteredReports[1])
         > UpvotesOrZero(filteredReports[3]) + CommentCount(filteredReports[3])

\* C6: under "most-commented" the displayed list is in descending order of comment
\* count, whatever the upvotes of the reports are.
C6_MostCommentedDescending ==
    engagementFilter = "most-commented" => NonIncreasing(filteredReports, CommentCount)

C6_Witness ==
    /\ engagementFilter = "most-commented"
    /\ Len(filteredReports) = 3
    /\ filteredReports # BaseList
    /\ CommentCount(filteredReports[1]) > CommentCount(filteredReports[3])
    /\ UpvotesOrZero(filteredReports[1]) < UpvotesOrZero(filteredReports[3])

\* C7: in every sort mode the displayed order is the order the same sort gives the
\* list in which each missing upvotes is 0 and each missing comments is empty.
C7_MissingFieldsSortAsZero ==
    engagementFilter # "all" =>
        Ids(filteredReports) =
            Ids(StableSort(engagementFilter,
                    WithDefaults(FilterReports(BaseList, search, locationSearch))))

\* C8: two searches that differ only in letter case display the same list, and a
\* report that a non-empty search hits only in its category is not displayed.
C8_SearchIgnoresCase ==
    /\ \A s \in SearchStrings :
          ToLowerCase(s) = ToLowerCase(search) =>
              DisplayOutcomes(reportsData, s, locationSearch, engagementFilter)
                  = {filteredReports}
    /\ \A i \in 1..Len(BaseList) :
          /\ search # <<>>
          /\ Includes(ToLowerCase(BaseList[i].type), ToLowerCase(search))
          /\ ~SearchHits(BaseList[i], search)
          => ~Displayed(BaseList[i])

C8_Witness ==
    /\ search = <<"F">>
    /\ Len(filteredReports) = 1
    /\ Len(BaseList) = 2
    /\ \E i \in 1..2 : ~Displayed(BaseList[i]) /\ BaseList[i].locationName = Some(<<"L">>)
    /\ filteredReports[1].description = Absent
    /\ filteredReports[1].email = Some(<<"F">>)

----------------------------------------------------------------------------
(* Properties of the session holder.                                       *)

\* C9: when a login is answered with an identity whose role is not "admin", the
\* login is rejected with the access-denied error and the stored token and the
\* admin identity are what they were before the answer.
C9_NonAdminLoginStoresNothing ==
    [][/\ loginsInFlight' = loginsInFlight - 1
       /\ lastLogin'.response # Absent
       /\ Val(lastLogin'.response).user.role # "admin"
       => /\ lastLogin'.settled = "access-denied"
          /\ token' = token
          /\ admin' = admin]_vars

C9_Witness ==
    /\ lastLogin.settled = "access-denied"
    /\ Val(lastLogin.response).user.role = "free"
    /\ token = NoToken
    /\ admin = Null
    /\ initPc = "done"

\* C10: the first step of startup enters validation (loading stays true, one
\* GET /auth/me issued) if and only if a token is stored; without a stored token
\* it ends startup with loading false, admin null and no request issued.
C10_StartupValidatesIffToken ==
    [][initPc = "start" /\ initPc' # "start"
       => /\ token # NoToken <=> initPc' = "awaiting"
          /\ initPc' = "awaiting" <=> (loading' /\ meRequests' = meRequests + 1)
          /\ token = NoToken =>
                /\ initPc' = "done"
                /\ ~loading'
                /\ admin' = Null
                /\ meRequests' = meRequests]_vars

C10_Witness ==
    /\ initPc = "awaiting"
    /\ loading
    /\ meRequests = 1
    /\ token # NoToken
    /\ admin = Null

\* C11: the step that finishes startup validation leaves the session authenticated
\* only with an identity of role 'admin' (and then keeps the stored token); in every
\* other outcome the stored token is removed and the admin identity is null.
C11_ValidationAuthenticatesOnlyAdmin ==
    [][initPc = "awaiting" /\ initPc' = "done"
       => /\ ~loading'
          /\ admin' # Null => /\ Val(admin').role = "admin"
                              /\ token' = token
          /\ admin' = Null => token' = NoToken]_vars

C11_Witness ==
    /\ initPc = "done"
    /\ ~loading
    /\ meRequests = 1
    /\ loginsInFlight = 0
    /\ lastLogin = NoLogin
    /\ admin # Null
    /\ Val(admin).role = "admin"
    /\ token # NoToken

\* C12: a logout step (the admin identity goes from set to null with startup
\* finished) removes the stored token in the same step and issues no backend
\* request: the numbers of validation and login requests and the fetches and
\* mutations in flight do not change.
C12_LogoutClearsSession ==
    [][~loading /\ admin # Null /\ admin' = Null
       => /\ token' = NoToken
          /\ meRequests' = meRequests
          /\ loginsInFlight' = loginsInFlight
          /\ UNCHANGED <<fetching, mutating, issued>>
          /\ UNCHANGED <<loading, initPc, lastLogin>>]_vars

C12_Witness ==
    /\ initPc = "done"
    /\ meRequests = 0
    /\ lastLogin.settled = "resolved"
    /\ loginsInFlight = 0
    /\ admin = Null
    /\ token = NoToken

----------------------------------------------------------------------------
(* Properties of the queries.                                              *)

\* The inputs of the screens that are part of a query key.
KeyInputs == <<typeFilter, riderEmail, userSearch, roleFilter, startDate, endDate, emailFilter>>

\* The inputs of the Reports screen that filter the fetched list.
ListInputs == <<search, locationSearch>>

FetchingKey(k) == \E f \in fetching : f.key = k

\* The request parameters as a function of the key alone.
ParamsOfKey(k) ==
    CASE k[1] = "admin-reports" -> [type |-> IF k[2] = allTypes THEN Absent ELSE Some(k[2])]
      [] k[1] = "rider-reports" -> [type |-> Absent]
      [] k[1] = "users" ->
            [search |-> IF k[2] = <<>> THEN Absent ELSE Some(k[2]),
             role |-> IF k[3] = "all" THEN Absent ELSE Some(k[3])]
      [] k[1] = "rider-performance" ->
            [startDate |-> IF k[2] = "" THEN Absent ELSE Some(k[2]),
             endDate |-> IF k[3] = "" THEN Absent ELSE Some(k[3]),
             email |-> IF k[4] = <<>> THEN Absent ELSE Some(k[4])]

SameKeySameParams == \A f \in fetching : f.request.params = ParamsOfKey(f.key)

\* C19 as stated: changing any filter input of a screen, the search and location
\* inputs of Reports included, changes the key and issues a fetch of the new key,
\* and fetches with the same key send the same request parameters.
C19_AnyFilterInputChangesKey ==
    /\ []SameKeySameParams
    /\ [][KeyInputs' # KeyInputs \/ ListInputs' # ListInputs
          => /\ CurrentKey' # CurrentKey
             /\ FetchingKey(CurrentKey)']_vars

\* C19, amended: the key is derived from the type filter (Reports), the search
\* and role filter (Users), the start date, end date and email filter
\* (RiderPerformance) and the rider email (RiderReports): changing one of them
\* changes the key and leaves a fetch of the new key in flight, sending the
\* request of the new inputs; fetches with the same key send the same request
\* parameters; changing the search, location or engagement input of Reports
\* changes neither the key nor the fetches in flight.
C19_KeyInputChangesKey ==
    /\ []SameKeySameParams
    /\ [][/\ KeyInputs' # KeyInputs
             => /\ CurrentKey' # CurrentKey
                /\ FetchOf(CurrentKey, CurrentRequest)' \in fetching'
          /\ <<ListInputs, engagementFilter>>' # <<ListInputs, engagementFilter>>
             => /\ CurrentKey' = CurrentKey
                /\ fetching' = fetching]_vars

C19_Witness ==
    /\ route = "users"
    /\ roleFilter = "free"
    /\ userSearch = <<>>
    /\ FetchOf(UsersKey(<<>>, "all"), [path |-> "/admin/users", params |-> UsersParams(<<>>, "all")])
          \in fetching
    /\ FetchOf(UsersKey(<<>>, "free"), [path |-> "/admin/users", params |-> UsersParams(<<>>, "free")])
          \in fetching

\* C20: a step in which responses arrive changes only the cache slots of the keys
\* those responses were fetched for; the Reports and RiderReports screens always
\* show the slot of the current key; and a response for another key than the
\* current one leaves the displayed data and list as they were.
C20_ResponsesLandInOwnSlot ==
    /\ [](route \in {"reports", "rider-reports"} => reportsData = cache[CurrentKey])
    /\ [][/\ \A k \in DOMAIN cache :
                cache'[k] # cache[k] => \E f \in fetching \ fetching' : f.key = k
          /\ (\A f \in fetching \ fetching' : f.key # CurrentKey)
             /\ UNCHANGED <<screenVars, search, locationSearch, engagementFilter>>
             => UNCHANGED <<reportsData, filteredReports>>]_vars

\* The response for the superseded key "flood" arrived while the fetch of the
\* current key is still in flight: the current key's slot is still empty.
C20_Witness ==
    /\ route = "reports"
    /\ typeFilter = allTypes
    /\ cache[ReportsKey(flood)] # Absent
    /\ cache[ReportsKey(allTypes)] = Absent
    /\ FetchingKey(ReportsKey(allTypes))
    /\ reportsData = Absent
    /\ filteredReports = <<>>

----------------------------------------------------------------------------
(* Properties of the prompts and mutations.                                *)

DeleteHandlers == {"handleDelete", "handleDeleteReport", "handleDeleteComment", "handleDeleteUser"}
DeleteKinds == {"delete-report", "delete-comment", "delete-user"}
DestructiveKinds == DeleteKinds \cup {"suspend"}
MutationKinds == DestructiveKinds \cup {"add-comment", "unsuspend"}

\* The requests issued by a step, and the requests whose response arrived in it.
IssuedNow == {m \in mutating' : \A x \in mutating : x.n # m.n}
SettledNow == {m \in mutating : \A x \in mutating' : x.n # m.n}

\* A handler resumes after its prompt in this step.
Resumes == prompting # Absent /\ prompting' = Absent

\* C13: when a delete handler resumes after its prompt, it issues its delete call
\* if and only if the prompt returned exactly "DELETE"; with any other input no
\* call is issued and no notification is shown; and no delete call is issued in
\* any other step.
C13_DeleteIssuedIffDELETE ==
    [][/\ Resumes /\ Val(prompting).handler \in DeleteHandlers
          => /\ IssuedNow # {} <=> Val(prompting).input = Some("DELETE")
             /\ \A m \in IssuedNow : /\ m.kind \in DeleteKinds
                                      /\ m.id = Val(prompting).id
                                      /\ m.commentId = Val(prompting).commentId
             /\ Val(prompting).input # Some("DELETE")
                => /\ mutating' = mutating
                   /\ issued' = issued
                   /\ toast' = toast
       /\ \A m \in IssuedNow :
             m.kind \in DeleteKinds => Resumes /\ Val(prompting).handler \in DeleteHandlers]_vars

\* A comment delete is in flight from the open detail modal.
C13_Witness ==
    /\ prompting = Absent
    /\ selectedReport # Null
    /\ \E m \in mutating : m.kind = "delete-comment" /\ m.mounted /\ m.commentId = 1
    /\ toast = "none"

\* C14 as stated: every destructive call, suspend included, is issued only by a
\* handler whose prompt returned the literal word "DELETE".
C14_DestructiveNeedsLiteralWord ==
    [][\A m \in IssuedNow :
          m.kind \in DestructiveKinds
          => Resumes /\ Val(prompting).input = Some("DELETE")]_vars

\* C14, amended: every destructive call is issued only by a handler resuming
\* after its blocking prompt; suspend is issued if and only if the prompt returned
\* a non-empty text, which is sent as the reason; an empty text or a cancelled
\* prompt issues no call and shows no notification.
C14_SuspendIssuedIffReason ==
    [][/\ \A m \in IssuedNow : m.kind \in DestructiveKinds => Resumes
       /\ Resumes /\ Val(prompting).handler = "handleSuspend"
          => /\ IssuedNow # {} <=> TruthyText(Val(prompting).input)
             /\ \A m \in IssuedNow : /\ m.kind = "suspend"
                                      /\ m.id = Val(prompting).id
                                      /\ m.reason = Val(Val(prompting).input)
             /\ ~TruthyText(Val(prompting).input)
                => /\ mutating' = mutating
                   /\ issued' = issued
                   /\ toast' = toast]_vars

\* A suspend call is in flight with the reason "delete".
C14_Witness ==
    /\ prompting = Absent
    /\ route = "users"
    /\ \E m \in mutating : m.kind = "suspend" /\ m.reason = "delete" /\ m.id = 1

\* The response of a delete-report call arrives in this step and the backend has
\* deleted the report.
DeleteReportSucceeds ==
    \E m \in SettledNow :
       /\ m.kind = "delete-report"
       /\ HasReport(serverReports, m.id)
       /\ ~HasReport(serverReports', m.id)

\* C15: when a delete-report call succeeds, a fetch of the key the mounted screen
\* displays is in flight after the step.
C15_DeleteRefetchesDisplayedList ==
    [][DeleteReportSucceeds /\ QueryEnabled => FetchingKey(CurrentKey)']_vars

\* The response of a mutation arrives in this step with a failure.
MutationFailsNow ==
    /\ \E m \in SettledNow : m.kind \in MutationKinds
    /\ toast' # "success"

\* C16: the step in which a mutation fails shows an error notification and
\* changes nothing else but the set of requests in flight: no cache slot, no fetch
\* in flight, no comment draft, no selected report, no displayed list.
C16_FailureChangesOnlyToast ==
    [][MutationFailsNow
       => /\ toast' = "error"
          /\ mutating' = mutating \ SettledNow
          /\ UNCHANGED <<cache, fetching, selectedReport, newComment>>
          /\ UNCHANGED <<reportVars, screenVars, serverVars, prompting, issued>>]_vars

\* An add-comment call failed: the draft is still in the open modal.
C16_Witness ==
    /\ toast = "error"
    /\ mutating = {}
    /\ issued = 1
    /\ selectedReport # Null
    /\ newComment = <<"h", " ">>
    /\ serverReports = InitialReports

\* The records of a cache slot.
RecordsOf(slot) == IF slot = Absent THEN {} ELSE {Val(slot)[i] : i \in 1..Len(Val(slot))}

\* C17: every displayed report is a record of the current key's slot; a slot
\* changes only when a fetch of its key completes, to the backend's answer; and a
\* step that issues or settles a mutation leaves every slot and the displayed
\* list as they were.
C17_NoOptimisticUpdate ==
    /\ [](route \in {"reports", "rider-reports"}
           => /\ reportsData = cache[CurrentKey]
              /\ \A i \in 1..Len(filteredReports) :
                    filteredReports[i] \in RecordsOf(cache[CurrentKey]))
    /\ [][/\ \A k \in DOMAIN cache :
                cache'[k] # cache[k]
                => \E f \in fetching \ fetching' :
                      /\ f.key = k
                      /\ cache'[k] = Some(Answer(f.request, serverReports, serverUsers))
          /\ mutating' # mutating
             => UNCHANGED <<cache, reportsData, filteredReports>>]_vars

\* Report 1 is deleted on the backend, the refetch is in flight, and the list
\* still shows the report as last fetched.
C17_Witness ==
    /\ route = "reports"
    /\ ~HasReport(serverReports, 1)
    /\ FetchingKey(CurrentKey)
    /\ \E i \in 1..Len(filteredReports) : filteredReports[i]._id = 1
    /\ toast = "success"

\* A fetch, a mutation, an export or a login fails in this step.
FailureNow ==
    \/ fetching' # fetching /\ fetching' \subseteq fetching /\ cache' = cache
    \/ SettledNow # {} /\ toast' = "error"
    \/ loginsInFlight' = loginsInFlight - 1 /\ lastLogin'.settled # "resolved"

\* C18: a step in which a fetch, a mutation, an export or a login fails leaves
\* the admin identity and the stored token as they were; the admin identity is
\* set to null and the token removed only by the step that finishes startup
\* validation.
C18_OnlyValidationEndsSession ==
    [][/\ FailureNow => token' = token /\ admin' = admin
       /\ (admin # Null /\ admin' = Null) \/ (token # NoToken /\ token' = NoToken)
          => initPc = "awaiting" /\ initPc' = "done"]_vars

\* The first fetch of Reports failed and an export or mutation failed: the
\* session is still the validated one.
C18_Witness ==
    /\ route = "reports"
    /\ cache[CurrentKey] = Absent
    /\ fetching = {}
    /\ mutating = {}
    /\ toast = "error"
    /\ token = "t1"
    /\ admin # Null

----------------------------------------------------------------------------
(* Properties of the session under interleaving.                           *)

\* C26: in every reachable state of the session holder, a non-null admin
\* identity implies a stored token.
C26_AdminImpliesToken == admin # Null => token # NoToken

\* A login resolved while the validation was in flight and the validation then
\* confirmed an admin: identity and token are both present.
C26_Witness ==
    /\ initPc = "done"
    /\ meRequests = 1
    /\ lastLogin.settled = "resolved"
    /\ loginsInFlight = 0
    /\ admin # Null
    /\ token = Val(lastLogin.response).token

\* C27: when the startup validation finishes while an admin identity set by a
\* login is held, the step keeps the stored token and leaves the admin identity
\* non-null.
C27_ValidationKeepsLogin ==
    [][initPc = "awaiting" /\ initPc' = "done" /\ admin # Null
       => token' = token /\ admin' # Null]_vars

\* C28: with the effect scheduled and the validation request completing or
\* failing, loading eventually becomes false, and once false it never becomes
\* true again.
C28_LoadingEnds ==
    /\ <>(~loading)
    /\ [][~loading => ~loading']_vars

\* Startup has ended through the validation request, with no login involved.
C28_Witness ==
    /\ ~loading
    /\ initPc = "done"
    /\ meRequests = 1
    /\ admin = Null
    /\ lastLogin = NoLogin
    /\ loginsInFlight = 0

----------------------------------------------------------------------------
(* Properties of invalidation, of the sort and of the row actions.         *)

\* C21: a fetch is started, with the screen's inputs unchanged, only by the step
\* in which the response of a mutation arrives with success, and then for a key
\* that mutation's onSuccess invalidates; the step that issues a mutation and the
\* step in which one fails start no fetch and cancel none.
C21_InvalidationOnlyOnSuccess ==
    [][/\ fetching' \ fetching # {} /\ UNCHANGED screenVars
          => \E m \in SettledNow :
                /\ m.kind \in MutationKinds
                /\ Accepts(m)
                /\ toast' = "success"
                /\ \A f \in fetching' \ fetching : f.key[1] \in Invalidated(m)
       /\ IssuedNow # {} => fetching' = fetching
       /\ SettledNow # {} /\ toast' = "error" => fetching' = fetching]_vars

\* A user mutation succeeded after the list had been fetched: the refetch of the
\* displayed key is in flight.
C21_Witness ==
    /\ route = "users"
    /\ mutating = {}
    /\ issued = 1
    /\ toast = "success"
    /\ serverUsers # InitialUsers
    /\ cache[CurrentKey] # Absent
    /\ FetchingKey(CurrentKey)

\* C22: no step of the Reports screen that derives the display list changes the
\* fetched list: once fetched, it keeps its elements and their order.
C22_DerivationKeepsSource ==
    [][reportsData # Absent => reportsData' = reportsData]_vars

\* A sort has reordered the display list of three reports; the fetched list is
\* still in fetch order.
C22_Witness ==
    /\ engagementFilter = "most-commented"
    /\ Len(filteredReports) = 3
    /\ Ids(BaseList) = <<1, 2, 3>>
    /\ Ids(filteredReports) = <<3, 1, 2>>

\* The sort key of a report under a sort mode, a missing field counting as 0.
SortKey(mode, report) ==
    CASE mode = "high-engagement" -> UpvotesOrZero(report) + CommentCount(report)
      [] mode = "most-upvoted" -> UpvotesOrZero(report)
      [] mode = "most-commented" -> CommentCount(report)

\* The position of the report with this _id in a list.
PositionOf(s, id) == CHOOSE i \in 1..Len(s) : s[i]._id = id

SelectedInSlot ==
    {r \in RecordsOf(cache[CurrentKey]) : r._id = Val(selectedReport)._id}

\* C24: when the detail modal is open, no request is in flight and the slot of the
\* displayed key holds the backend's current answer, the modal shows the comment
\* sequence the slot holds for its report.
C24_ModalShowsRefetchedComments ==
    /\ route \in {"reports", "rider-reports"}
    /\ selectedReport # Null
    /\ fetching = {}
    /\ mutating = {}
    /\ prompting = Absent
    /\ cache[CurrentKey] = Some(Answer(CurrentRequest, serverReports, serverUsers))
    => \A r \in SelectedInSlot : r.comments = Val(selectedReport).comments

\* C30: a suspend, unsuspend or delete-user call is issued only for a user whose
\* record in the displayed slot has a role other than 'admin'; a suspend call
\* only when that record is not suspended, an unsuspend call only when it is.
C30_RowActionsFollowFetchedRecord ==
    [][\A m \in IssuedNow :
          m.kind \in {"suspend", "unsuspend", "delete-user"}
          => \E i \in 1..Len(UsersOf(cache[CurrentKey])) :
                LET user == UsersOf(cache[CurrentKey])[i]
                IN  /\ user._id = m.id
                    /\ user.role # "admin"
                    /\ m.kind = "suspend" => ~user.isSuspended
                    /\ m.kind = "unsuspend" => user.isSuspended]_vars

\* An unsuspend call is in flight for the suspended user of the fetched list.
C30_Witness ==
    /\ route = "users"
    /\ prompting = Absent
    /\ \E m \in mutating : m.kind = "unsuspend" /\ m.id = 3
    /\ \E i \in 1..Len(UsersOf(cache[CurrentKey])) :
          /\ UsersOf(cache[CurrentKey])[i]._id = 3
          /\ UsersOf(cache[CurrentKey])[i].isSuspended

\* The report is by the rider with this email, compared as RiderReports compares.
ByRider(report, email) ==
    /\ report.email # Absent
    /\ ToLowerCase(Val(report.email)) = ToLowerCase(email)

\* C25: when Reports was opened with an email parameter E (the banner is shown),
\* the list is fetched and no other filter is set, the displayed reports are
\* exactly the fetched reports whose reporter email matches E.
C25_EmailParameterFiltersByReporter ==
    /\ BannerShown
    /\ countrySearch = InitialCountrySearch(emailFromUrl)
    /\ search = <<>>
    /\ engagementFilter = "all"
    /\ reportsData # Absent
    => \A i \in 1..Len(BaseList) :
          Displayed(BaseList[i]) <=> ByRider(BaseList[i], Val(emailFromUrl))

\* C29: at a protected path the page is rendered only when loading is false and the
\* admin identity is not null; while loading is true neither the page nor the
\* redirect is produced, and the path changes to /login only when loading is
\* false; when loading is false and the identity is null the path becomes
\* /login; a step that clears the identity leaves no protected page rendered.
C29_ProtectedRouteGuards ==
    /\ [](route \in ProtectedPaths =>
             /\ Rendered = "children" <=> ~loading /\ admin # Null
             /\ loading => Rendered = "spinner")
    /\ [][route' # route /\ route \in ProtectedPaths
             => ~loading /\ route' = "login" /\ admin' = Null]_vars
    /\ [][admin # Null /\ admin' = Null => Rendered' # "children"]_vars
    /\ (route \in ProtectedPaths /\ ~loading /\ admin = Null) ~> (route = "login")

\* The dashboard is rendered for the admin of a validated session.
C29_Witness ==
    /\ route \in ProtectedPaths
    /\ Rendered = "children"
    /\ initPc = "done"
    /\ token \in Tokens
    /\ admin # Null

====
